---- MODULE Spec2Model ----
(***************************************************************************)
(* A model of the health-check service of mock-healthz-metrics.py:         *)
(*   - run_checks, the orchestrator that runs the probes on a thread pool  *)
(*     and collects their futures with future.result(timeout=...),         *)
(*   - background_check_loop, the refresher thread that publishes each     *)
(*     round into the global last_check_results,                           *)
(*   - the /healthz and /metrics request handlers that read that global.   *)
(* Time is a clock of whole seconds (now).  The sub-second latency of a    *)
(* successful API probe (50..500 ms) takes no tick of that clock.          *)
(***************************************************************************)
EXTENDS Integers, Sequences, FiniteSets, TLC

\* ------------------------------------------------------------ configuration

INTERNAL_APIS == <<"billing", "usage">>
EXTERNAL_APIS == <<"alipay", "sms">>
CHECK_TIMEOUT == 5
CHECK_INTERVAL == 5

\* The keys of critical_futures, in insertion order.
CRITICAL_NAMES == <<"db_connection", "config_service">>

\* Bounds of the model: the rounds the refresher runs, and the probe
\* invocations of a run that leave the success path, with requests being
\* served (MaxFaults) and for the refresher alone (MaxProbeFaults).
MaxRounds == 2
MaxFaults == 1
MaxProbeFaults == 3

\* latency = random.randint(50, 500): the latency shows in the message of a
\* successful API probe and nowhere else, so one value of the range stands for
\* all of them.
Latencies == {50}

\* f"{prefix}/{name}"
Svc(prefix, name) == prefix \o "/" \o name

InternalSvcs == { Svc("internal_api", INTERNAL_APIS[i]) : i \in 1..Len(INTERNAL_APIS) }
ExternalSvcs == { Svc("external_api", EXTERNAL_APIS[i]) : i \in 1..Len(EXTERNAL_APIS) }
CriticalSvcs == { CRITICAL_NAMES[i] : i \in 1..Len(CRITICAL_NAMES) }
AllProbes == CriticalSvcs \cup InternalSvcs \cup ExternalSvcs

\* ------------------------------------------------------------------ probes

\* What one invocation of a probe does.  The probes of the source draw it at
\* random: the success path, the failure path, or the slow path that sleeps
\* CHECK_TIMEOUT + 1 seconds.  "raise" and "hang" are the two faults a probe
\* callable handed to executor.submit can have beside them: it raises an
\* error, or it never returns.
NominalKinds == {"ok", "fail", "slow"}
FaultKinds == {"raise", "hang"}

Behaviours(kinds) ==
    [kind : kinds \cap {"ok"}, latency : Latencies]
        \cup [kind : kinds \ {"ok"}, latency : {0}]

\* The behaviours of a critical probe: it has no latency.
CriticalBehaviours(kinds) == [kind : kinds, latency : {0}]

\* A time no clock reaches: the completion time of a probe that never returns.
Never == -1

\* Seconds from submission to completion.
Duration(b) ==
    CASE b.kind = "slow" -> CHECK_TIMEOUT + 1
      [] b.kind = "hang" -> Never
      [] OTHER -> 0

check_db_connection(b) ==
    CASE b.kind = "slow" -> <<"db_connection", FALSE, "db_connection timed out">>
      [] b.kind = "ok" -> <<"db_connection", TRUE, "Database is connected">>
      [] OTHER -> <<"db_connection", FALSE, "Database connection failed">>

check_config_service(b) ==
    CASE b.kind = "slow" -> <<"config_service", FALSE, "config_service timed out">>
      [] b.kind = "ok" -> <<"config_service", TRUE, "Config service is reachable">>
      [] OTHER -> <<"config_service", FALSE, "Config service error">>

\* check_apis([name], prefix)[0]
check_apis(name, prefix, b) ==
    LET svc == Svc(prefix, name) IN
    CASE b.kind = "slow" -> <<svc, FALSE, svc \o " timed out">>
      [] b.kind = "ok" -> <<svc, TRUE, svc \o " OK (" \o ToString(b.latency) \o "ms)">>
      [] OTHER -> <<svc, FALSE, svc \o " returned error">>

\* The text of the error a faulty probe raises.
ProbeError(p) == p \o " raised"

\* ------------------------------------------------------------------- state

VARIABLES
    now,                \* the clock, in seconds
    last_check_results, \* the global cache: critical, external, timestamp
    snapshot_round,     \* for each key of the cache, the round that wrote it
    pc,                 \* where the refresher thread is
    round,              \* the calls of run_checks so far
    futures,            \* the futures of the current call of run_checks
    calls,              \* invocations of each probe in the current round
    critical_results,   \* run_checks: the list critical_results
    external_results,   \* run_checks: the list external_results
    idx,                \* run_checks: position of the current collection loop
    wait_start,         \* when the current future.result call began
    exc,                \* the exception propagating out of run_checks
    critical,           \* background_check_loop: critical
    external,           \* background_check_loop: external
    wake,               \* when the current time.sleep ends
    faults,             \* probe invocations off the success path so far
    h_pc,               \* where the request handler is
    h_route,            \* the route of the request being handled
    h_fmt,              \* request.query.get("format")
    h_critical,         \* handler: critical_results
    h_external,         \* handler: external_results
    h_ts,               \* handler: ts
    h_round,            \* for each value the handler read, the round it is of
    response,           \* the response of the finished request
    s_pc,               \* mock_healthz_server.py: where its handler is
    s_results,          \* mock_healthz_server.py: the list run_checks returned
    s_executed,         \* mock_healthz_server.py: the checks whose body ran
    s_response          \* mock_healthz_server.py: the response of the request

bgVars == <<pc, round, futures, calls, critical_results, external_results, idx,
            wait_start, exc, critical, external, wake, faults>>
storeVars == <<last_check_results, snapshot_round>>
handlerVars == <<h_pc, h_route, h_fmt, h_critical, h_external, h_ts, h_round,
                 response>>
serverVars == <<s_pc, s_results, s_executed, s_response>>
vars == <<now, storeVars, bgVars, handlerVars, serverVars>>

NoExc == "none"
NoResponse == [status |-> 0]
NoRounds == [critical |-> 0, external |-> 0, timestamp |-> 0]

\* A cache that starts with a placeholder entry in the place of empty lists.
InitialSnapshot_pending ==
    [critical |-> << <<"startup", FALSE, "no check has run yet">> >>,
     external |-> <<>>, timestamp |-> 0]

\* The initial value of the global cache.
InitialSnapshot == [critical |-> <<>>, external |-> <<>>, timestamp |-> 0]

NoFuture ==
    [submitted |-> FALSE, behaviour |-> [kind |-> "ok", latency |-> 0],
     submitAt |-> 0, doneAt |-> 0]
NoFutures == [p \in AllProbes |-> NoFuture]

Init ==
    /\ now = 0
    /\ last_check_results = InitialSnapshot
    /\ snapshot_round = NoRounds
    /\ pc = "loop"
    /\ round = 0
    /\ futures = NoFutures
    /\ calls = [p \in AllProbes |-> 0]
    /\ critical_results = <<>>
    /\ external_results = <<>>
    /\ idx = 1
    /\ wait_start = 0
    /\ exc = NoExc
    /\ critical = <<>>
    /\ external = <<>>
    /\ wake = 0
    /\ faults = 0
    /\ h_pc = "idle"
    /\ h_route = "none"
    /\ h_fmt = "none"
    /\ h_critical = <<>>
    /\ h_external = <<>>
    /\ h_ts = 0
    /\ h_round = NoRounds
    /\ response = NoResponse
    /\ s_pc = "idle"
    /\ s_results = <<>>
    /\ s_executed = {}
    /\ s_response = NoResponse

\* ------------------------------------------------------ the thread pool

\* executor.submit(probe) at the current time: the probe completes after its
\* duration, or never.
Submit(b) ==
    [submitted |-> TRUE, behaviour |-> b, submitAt |-> now,
     doneAt |-> IF Duration(b) = Never THEN Never ELSE now + Duration(b)]

FutureDone(p) ==
    /\ futures[p].submitted
    /\ futures[p].doneAt # Never
    /\ now >= futures[p].doneAt

Raises(p) == futures[p].behaviour.kind = "raise"

\* The value of a completed future: what the submitted callable returned.
FutureValue(p) ==
    LET b == futures[p].behaviour IN
    IF p = "db_connection" THEN check_db_connection(b)
    ELSE IF p = "config_service" THEN check_config_service(b)
    ELSE IF p \in InternalSvcs
    THEN check_apis(INTERNAL_APIS[CHOOSE i \in 1..Len(INTERNAL_APIS) :
                        p = Svc("internal_api", INTERNAL_APIS[i])], "internal_api", b)
    ELSE check_apis(EXTERNAL_APIS[CHOOSE i \in 1..Len(EXTERNAL_APIS) :
                        p = Svc("external_api", EXTERNAL_APIS[i])], "external_api", b)

\* future.result(timeout=CHECK_TIMEOUT), called at wait_start, can leave its
\* wait: the future is done, or the timeout has elapsed.
DeadlineReached == now >= wait_start + CHECK_TIMEOUT
ResultReturns(p) == (FutureDone(p) /\ ~Raises(p)) \/ (~FutureDone(p) /\ DeadlineReached)

\* try: future.result(timeout=CHECK_TIMEOUT)
\* except TimeoutError: (name, False, f"{name} timed out")
ResultOrTimeout(p, name) ==
    IF FutureDone(p) THEN FutureValue(p) ELSE <<name, FALSE, name \o " timed out">>

\* The futures collected in the order they complete, as
\* concurrent.futures.as_completed yields them, in the place of dict order.
FutureAt_asCompleted(names, i) ==
    LET key(n) == CHOOSE p \in AllProbes :
                      p \in {n, Svc("internal_api", n), Svc("external_api", n)}
        end(j) == LET d == futures[key(names[j])].doneAt
                  IN  IF d = Never THEN 1000000 ELSE d
        before(j) == {k \in 1..Len(names) :
                         end(k) < end(j) \/ (end(k) = end(j) /\ k < j)}
    IN  names[CHOOSE j \in 1..Len(names) : Cardinality(before(j)) = i - 1]

\* The future the idx-th iteration of a loop over a futures dict collects:
\* a dict iterates in insertion order.
FutureAt(names, i) == names[i]

\* The gate with any() in the place of all().
AllOk_any(results) == \E i \in 1..Len(results) : results[i][2]

\* all(ok for _, ok, _ in results)
AllOk(results) == \A i \in 1..Len(results) : results[i][2]

TotalCost(bs) ==
    LET S == DOMAIN bs IN
    Cardinality({p \in S : bs[p].kind # "ok"})

\* -------------------------------------------------------------- run_checks

\* background_check_loop calls run_checks, which opens the executor and
\* submits the two critical probes.
SubmitCritical(kinds, budget) ==
    /\ pc = "loop"
    /\ round < MaxRounds
    /\ \E bs \in [CriticalSvcs -> CriticalBehaviours(kinds)] :
          /\ faults + TotalCost(bs) <= budget
          /\ faults' = faults + TotalCost(bs)
          /\ futures' = [p \in AllProbes |->
                            IF p \in CriticalSvcs THEN Submit(bs[p]) ELSE NoFuture]
    /\ round' = round + 1
    /\ calls' = [p \in AllProbes |-> IF p \in CriticalSvcs THEN 1 ELSE 0]
    /\ critical_results' = <<>>
    /\ external_results' = <<>>
    /\ idx' = 1
    /\ wait_start' = now
    /\ exc' = NoExc
    /\ pc' = "collect_critical"
    /\ UNCHANGED <<now, storeVars, critical, external, wake, handlerVars>>
    /\ UNCHANGED serverVars

\* One iteration of the loop over critical_futures.
CollectCritical ==
    /\ pc = "collect_critical"
    /\ LET name == FutureAt(CRITICAL_NAMES, idx) IN
          /\ ResultReturns(name)
          /\ critical_results' = Append(critical_results, ResultOrTimeout(name, name))
    /\ IF idx < Len(CRITICAL_NAMES)
       THEN idx' = idx + 1 /\ pc' = pc
       ELSE idx' = 1 /\ pc' = "gate"
    /\ wait_start' = now
    /\ UNCHANGED <<now, storeVars, round, futures, calls, external_results, exc,
                   critical, external, wake, faults, handlerVars>>
    /\ UNCHANGED serverVars

\* The critical services are healthy: submit the internal API probes.
SubmitInternal(kinds, budget) ==
    /\ pc = "gate"
    /\ AllOk(critical_results)
    /\ \E bs \in [InternalSvcs -> Behaviours(kinds)] :
          /\ faults + TotalCost(bs) <= budget
          /\ faults' = faults + TotalCost(bs)
          /\ futures' = [p \in AllProbes |->
                            IF p \in InternalSvcs THEN Submit(bs[p]) ELSE futures[p]]
    /\ calls' = [p \in AllProbes |-> IF p \in InternalSvcs THEN calls[p] + 1 ELSE calls[p]]
    /\ idx' = 1
    /\ wait_start' = now
    /\ pc' = "collect_internal"
    /\ UNCHANGED <<now, storeVars, round, critical_results, external_results, exc,
                   critical, external, wake, handlerVars>>
    /\ UNCHANGED serverVars

\* A gate that leaves the skipped probes out of the round.
SkipInternal_omit ==
    /\ pc = "gate"
    /\ ~AllOk(critical_results)
    /\ pc' = "submit_external"
    /\ UNCHANGED <<now, storeVars, round, futures, calls, critical_results,
                   external_results, idx, wait_start, exc, critical, external,
                   wake, faults, handlerVars>>
    /\ UNCHANGED serverVars

\* A collection of the internal futures whose except branch records the skip
\* entry of the else branch instead of the timeout entry.
CollectInternal_timeoutAsSkip ==
    /\ pc = "collect_internal"
    /\ LET name == FutureAt(INTERNAL_APIS, idx)
           svc == Svc("internal_api", name) IN
          /\ ResultReturns(svc)
          /\ critical_results' =
                Append(critical_results,
                       IF FutureDone(svc) THEN FutureValue(svc)
                       ELSE <<svc, FALSE, "Skipped due to upstream failure">>)
    /\ IF idx < Len(INTERNAL_APIS)
       THEN idx' = idx + 1 /\ pc' = pc
       ELSE idx' = 1 /\ pc' = "submit_external"
    /\ wait_start' = now
    /\ UNCHANGED <<now, storeVars, round, futures, calls, external_results, exc,
                   critical, external, wake, faults, handlerVars>>
    /\ UNCHANGED serverVars

\* A critical service failed: the internal API probes are skipped.
SkipInternal ==
    /\ pc = "gate"
    /\ ~AllOk(critical_results)
    /\ critical_results' = critical_results \o
          [i \in 1..Len(INTERNAL_APIS) |->
              <<Svc("internal_api", INTERNAL_APIS[i]), FALSE,
                "Skipped due to upstream failure">>]
    /\ pc' = "submit_external"
    /\ UNCHANGED <<now, storeVars, round, futures, calls, external_results, idx,
                   wait_start, exc, critical, external, wake, faults, handlerVars>>
    /\ UNCHANGED serverVars

\* One iteration of the loop over internal_futures.
CollectInternal ==
    /\ pc = "collect_internal"
    /\ LET name == FutureAt(INTERNAL_APIS, idx)
           svc == Svc("internal_api", name) IN
          /\ ResultReturns(svc)
          /\ critical_results' = Append(critical_results, ResultOrTimeout(svc, svc))
    /\ IF idx < Len(INTERNAL_APIS)
       THEN idx' = idx + 1 /\ pc' = pc
       ELSE idx' = 1 /\ pc' = "submit_external"
    /\ wait_start' = now
    /\ UNCHANGED <<now, storeVars, round, futures, calls, external_results, exc,
                   critical, external, wake, faults, handlerVars>>
    /\ UNCHANGED serverVars

\* The external API probes gated like the internal ones: skipped when a
\* critical service failed.
SubmitExternal_gated(kinds, budget) ==
    /\ pc = "submit_external"
    /\ IF \A i \in 1..Len(CRITICAL_NAMES) : critical_results[i][2]
       THEN /\ \E bs \in [ExternalSvcs -> Behaviours(kinds)] :
                  /\ faults + TotalCost(bs) <= budget
                  /\ faults' = faults + TotalCost(bs)
                  /\ futures' = [p \in AllProbes |->
                                    IF p \in ExternalSvcs THEN Submit(bs[p])
                                    ELSE futures[p]]
            /\ calls' = [p \in AllProbes |->
                            IF p \in ExternalSvcs THEN calls[p] + 1 ELSE calls[p]]
            /\ external_results' = <<>>
            /\ pc' = "collect_external"
       ELSE /\ external_results' =
                  [i \in 1..Len(EXTERNAL_APIS) |->
                      <<Svc("external_api", EXTERNAL_APIS[i]), FALSE,
                        "Skipped due to upstream failure">>]
            /\ pc' = "shutdown"
            /\ UNCHANGED <<faults, futures, calls>>
    /\ idx' = 1
    /\ wait_start' = now
    /\ UNCHANGED <<now, storeVars, round, critical_results, exc, critical, external,
                   wake, handlerVars>>
    /\ UNCHANGED serverVars

\* The external API probes are submitted whatever the critical results are.
SubmitExternal(kinds, budget) ==
    /\ pc = "submit_external"
    /\ \E bs \in [ExternalSvcs -> Behaviours(kinds)] :
          /\ faults + TotalCost(bs) <= budget
          /\ faults' = faults + TotalCost(bs)
          /\ futures' = [p \in AllProbes |->
                            IF p \in ExternalSvcs THEN Submit(bs[p]) ELSE futures[p]]
    /\ calls' = [p \in AllProbes |-> IF p \in ExternalSvcs THEN calls[p] + 1 ELSE calls[p]]
    /\ external_results' = <<>>
    /\ idx' = 1
    /\ wait_start' = now
    /\ pc' = "collect_external"
    /\ UNCHANGED <<now, storeVars, round, critical_results, exc, critical, external,
                   wake, handlerVars>>
    /\ UNCHANGED serverVars

\* One iteration of the loop over external_futures.
CollectExternal ==
    /\ pc = "collect_external"
    /\ LET name == FutureAt(EXTERNAL_APIS, idx)
           svc == Svc("external_api", name) IN
          /\ ResultReturns(svc)
          /\ external_results' = Append(external_results, ResultOrTimeout(svc, svc))
    /\ IF idx < Len(EXTERNAL_APIS)
       THEN idx' = idx + 1 /\ pc' = pc
       ELSE idx' = 1 /\ pc' = "shutdown"
    /\ wait_start' = now
    /\ UNCHANGED <<now, storeVars, round, futures, calls, critical_results, exc,
                   critical, external, wake, faults, handlerVars>>
    /\ UNCHANGED serverVars

\* The future whose result the refresher is waiting for.
CurrentFuture ==
    CASE pc = "collect_critical" -> FutureAt(CRITICAL_NAMES, idx)
      [] pc = "collect_internal" -> Svc("internal_api", FutureAt(INTERNAL_APIS, idx))
      [] pc = "collect_external" -> Svc("external_api", FutureAt(EXTERNAL_APIS, idx))

Collecting == pc \in {"collect_critical", "collect_internal", "collect_external"}

\* future.result re-raises the error the probe raised.  It is no TimeoutError,
\* so no except clause of run_checks catches it: it leaves the loop and the
\* with block.
ResultRaises ==
    /\ Collecting
    /\ FutureDone(CurrentFuture)
    /\ Raises(CurrentFuture)
    /\ exc' = ProbeError(CurrentFuture)
    /\ pc' = "shutdown"
    /\ UNCHANGED <<now, storeVars, round, futures, calls, critical_results,
                   external_results, idx, wait_start, critical, external, wake,
                   faults, handlerVars>>
    /\ UNCHANGED serverVars

Running == {p \in AllProbes : futures[p].submitted /\ ~FutureDone(p)}

\* An executor that is shut down without waiting (shutdown(wait=False)):
\* run_checks returns while abandoned probes are still running.
Shutdown_noWait ==
    /\ pc = "shutdown"
    /\ IF exc = NoExc
       THEN /\ critical' = critical_results
            /\ external' = external_results
            /\ pc' = "publish_critical"
       ELSE /\ pc' = "dead"
            /\ UNCHANGED <<critical, external>>
    /\ futures' = NoFutures
    /\ critical_results' = <<>>
    /\ external_results' = <<>>
    /\ UNCHANGED <<now, storeVars, round, calls, idx, wait_start, exc, wake, faults,
                   handlerVars>>
    /\ UNCHANGED serverVars

\* The end of the with block: executor.shutdown(wait=True) returns once every
\* submitted probe has completed.  Then run_checks returns its two lists to
\* background_check_loop, or the pending exception leaves run_checks and
\* background_check_loop, which has no handler for it: the thread ends.
Shutdown ==
    /\ pc = "shutdown"
    /\ Running = {}
    /\ IF exc = NoExc
       THEN /\ critical' = critical_results
            /\ external' = external_results
            /\ pc' = "publish_critical"
       ELSE /\ pc' = "dead"
            /\ UNCHANGED <<critical, external>>
    /\ futures' = NoFutures
    /\ critical_results' = <<>>
    /\ external_results' = <<>>
    /\ UNCHANGED <<now, storeVars, round, calls, idx, wait_start, exc, wake, faults,
                   handlerVars>>
    /\ UNCHANGED serverVars

\* ---------------------------------------------------- background_check_loop

\* last_check_results["critical"] = critical
PublishCritical ==
    /\ pc = "publish_critical"
    /\ last_check_results' = [last_check_results EXCEPT !.critical = critical]
    /\ snapshot_round' = [snapshot_round EXCEPT !.critical = round]
    /\ pc' = "publish_external"
    /\ UNCHANGED <<now, round, futures, calls, critical_results, external_results,
                   idx, wait_start, exc, critical, external, wake, faults,
                   handlerVars>>
    /\ UNCHANGED serverVars

\* last_check_results["external"] = external
PublishExternal ==
    /\ pc = "publish_external"
    /\ last_check_results' = [last_check_results EXCEPT !.external = external]
    /\ snapshot_round' = [snapshot_round EXCEPT !.external = round]
    /\ pc' = "publish_timestamp"
    /\ UNCHANGED <<now, round, futures, calls, critical_results, external_results,
                   idx, wait_start, exc, critical, external, wake, faults,
                   handlerVars>>
    /\ UNCHANGED serverVars

\* last_check_results["timestamp"] = time.time(); time.sleep(CHECK_INTERVAL)
PublishTimestamp ==
    /\ pc = "publish_timestamp"
    /\ last_check_results' = [last_check_results EXCEPT !.timestamp = now]
    /\ snapshot_round' = [snapshot_round EXCEPT !.timestamp = round]
    /\ wake' = now + CHECK_INTERVAL
    /\ pc' = "sleep"
    /\ UNCHANGED <<now, round, futures, calls, critical_results, external_results,
                   idx, wait_start, exc, critical, external, faults, handlerVars>>
    /\ UNCHANGED serverVars

\* time.sleep returns: the next iteration of while True.
WakeUp ==
    /\ pc = "sleep"
    /\ now >= wake
    /\ pc' = "loop"
    /\ UNCHANGED <<now, storeVars, round, futures, calls, critical_results,
                   external_results, idx, wait_start, exc, critical, external, wake,
                   faults, handlerVars>>
    /\ UNCHANGED serverVars

Min(S) == CHOOSE x \in S : \A y \in S : x <= y

\* The next instant at which the blocked refresher can go on: the future it
\* waits for completes or its timeout elapses (future.result), a running probe
\* that will complete does so (executor shutdown), the sleep ends (time.sleep).
\* A probe that never returns gives no such instant.
WakeTimes ==
    CASE Collecting /\ ~FutureDone(CurrentFuture) /\ ~DeadlineReached ->
             {wait_start + CHECK_TIMEOUT}
                 \cup (IF futures[CurrentFuture].doneAt # Never
                       THEN {futures[CurrentFuture].doneAt} ELSE {})
      [] pc = "shutdown" ->
             {futures[p].doneAt : p \in {q \in Running : futures[q].doneAt # Never}}
      [] pc = "sleep" /\ now < wake -> {wake}
      [] OTHER -> {}

\* Time passes while the refresher is blocked, up to the instant it can go on.
\* The handler runs at any instant in between; nothing it reads changes there.
Tick ==
    /\ WakeTimes # {}
    /\ now' = Min(WakeTimes)
    /\ UNCHANGED <<storeVars, bgVars, handlerVars>>
    /\ UNCHANGED serverVars

\* ------------------------------------------------------- request handlers

Routes == {"healthz", "metrics"}
\* request.query.get("format"): absent, or given as json.
Formats == {"none", "json"}

\* A request arrives and bottle dispatches it to its route.
Request(route) ==
    /\ h_pc = "idle"
    /\ h_route' = route
    /\ h_pc' = "read_critical"
    /\ UNCHANGED <<now, storeVars, bgVars, h_fmt, h_critical, h_external, h_ts,
                   h_round, response>>
    /\ UNCHANGED serverVars

\* critical_results = last_check_results["critical"]
ReadCritical ==
    /\ h_pc = "read_critical"
    /\ h_critical' = last_check_results.critical
    /\ h_round' = [h_round EXCEPT !.critical = snapshot_round.critical]
    /\ h_pc' = "read_external"
    /\ UNCHANGED <<now, storeVars, bgVars, h_route, h_fmt, h_external, h_ts,
                   response>>
    /\ UNCHANGED serverVars

\* external_results = last_check_results["external"]
ReadExternal ==
    /\ h_pc = "read_external"
    /\ h_external' = last_check_results.external
    /\ h_round' = [h_round EXCEPT !.external = snapshot_round.external]
    /\ h_pc' = IF h_route = "healthz" THEN "read_timestamp" ELSE "render"
    /\ UNCHANGED <<now, storeVars, bgVars, h_route, h_fmt, h_critical, h_ts,
                   response>>
    /\ UNCHANGED serverVars

\* ts = last_check_results["timestamp"]
ReadTimestamp ==
    /\ h_pc = "read_timestamp"
    /\ h_ts' = last_check_results.timestamp
    /\ h_round' = [h_round EXCEPT !.timestamp = snapshot_round.timestamp]
    /\ h_pc' = "render"
    /\ UNCHANGED <<now, storeVars, bgVars, h_route, h_fmt, h_critical, h_external,
                   response>>
    /\ UNCHANGED serverVars

\* time.strftime('%Y-%m-%d %H:%M:%S', time.localtime(ts)): ts at the
\* resolution of one second, which is the resolution of the clock.
SnapshotStr(ts) == <<"%Y-%m-%d %H:%M:%S", ts>>

\* The status computed over every check, the external ones included.
Failed_withExternal(results) ==
    \/ \E i \in 1..Len(results) : ~results[i][2]
    \/ \E i \in 1..Len(h_external) : ~h_external[i][2]

\* A status that takes a round without results for a failed round.
Failed_emptyIsFailure(results) ==
    \/ results = <<>>
    \/ \E i \in 1..Len(results) : ~results[i][2]

\* any(not ok for _, ok, _ in critical_results)
Failed(results) == \E i \in 1..Len(results) : ~results[i][2]

\* {"name": name, "status": "ok" if ok else "error", "message": msg}
JsonChecks(results) ==
    [i \in 1..Len(results) |->
        [name |-> results[i][1],
         status |-> IF results[i][2] THEN "ok" ELSE "error",
         message |-> results[i][3]]]

\* The rows of the text table: name, status mark (U+2714 if ok, else U+2716),
\* message.
TextRows(results) ==
    [i \in 1..Len(results) |->
        <<results[i][1], IF results[i][2] THEN "U+2714" ELSE "U+2716", results[i][3]>>]

HealthzResponse(fmt, crit, ext, ts) ==
    LET failed == Failed(crit)
        code == IF failed THEN 500 ELSE 200
    IN  IF fmt = "json"
        THEN [status |-> code,
              content_type |-> "application/json",
              body |-> [status |-> IF ~failed THEN "ok" ELSE "error",
                        message |-> IF ~failed THEN "All critical checks passed"
                                               ELSE "Some critical checks failed",
                        snapshot_time |-> SnapshotStr(ts),
                        critical |-> JsonChecks(crit),
                        external |-> JsonChecks(ext)]]
        ELSE [status |-> code,
              content_type |-> "text/plain",
              body |-> [title |-> <<"HEALTH CHECK SNAPSHOT", SnapshotStr(ts)>>,
                        critical |-> TextRows(crit),
                        external |-> TextRows(ext)]]

\* A healthz that merges the two lists in place for its rendering: the list it
\* read is the list object of the cache, so the merge writes the cache.
HealthzRespond_inPlace(fmt) ==
    /\ h_pc = "render"
    /\ h_route = "healthz"
    /\ h_fmt' = fmt
    /\ response' = HealthzResponse(fmt, h_critical, h_external, h_ts)
    /\ h_pc' = "done"
    /\ last_check_results' =
           [last_check_results EXCEPT !.critical = h_critical \o h_external]
    /\ UNCHANGED <<now, snapshot_round, bgVars, h_route, h_critical, h_external,
                   h_ts, h_round>>
    /\ UNCHANGED serverVars

\* healthz, from the snapshot it read to its HTTPResponse.  The format of the
\* request is an input that only the rendering uses.
HealthzRespond(fmt) ==
    /\ h_pc = "render"
    /\ h_route = "healthz"
    /\ h_fmt' = fmt
    /\ response' = HealthzResponse(fmt, h_critical, h_external, h_ts)
    /\ h_pc' = "done"
    /\ UNCHANGED <<now, storeVars, bgVars, h_route, h_critical, h_external, h_ts,
                   h_round>>
    /\ UNCHANGED serverVars

\* A gauge line whose value does not follow the result.
GaugeLine_constantOne(result, type) ==
    "healthcheck_status{check=\"" \o result[1] \o "\",type=\"" \o type \o "\"} 1"

\* f'healthcheck_status{{check="{name}",type="{type}"}} {1 if ok else 0}'
GaugeLine(result, type) ==
    "healthcheck_status{check=\"" \o result[1] \o "\",type=\"" \o type \o "\"} "
        \o (IF result[2] THEN "1" ELSE "0")

MetricsResponse(crit, ext) ==
    [status |-> 200,
     content_type |-> "text/plain",
     body |-> <<"# HELP healthcheck_status Health check status (1=ok,0=error)",
                "# TYPE healthcheck_status gauge">>
              \o [i \in 1..Len(crit) |-> GaugeLine(crit[i], "critical")]
              \o [i \in 1..Len(ext) |-> GaugeLine(ext[i], "external")]]

\* metrics, from the snapshot it read to its HTTPResponse.
MetricsRespond ==
    /\ h_pc = "render"
    /\ h_route = "metrics"
    /\ response' = MetricsResponse(h_critical, h_external)
    /\ h_pc' = "done"
    /\ UNCHANGED <<now, storeVars, bgVars, h_route, h_fmt, h_critical, h_external,
                   h_ts, h_round>>
    /\ UNCHANGED serverVars

\* The response has been sent: the handler and its locals are gone.
Finish ==
    /\ h_pc = "done"
    /\ h_pc' = "idle"
    /\ h_route' = "none"
    /\ h_fmt' = "none"
    /\ h_critical' = <<>>
    /\ h_external' = <<>>
    /\ h_ts' = 0
    /\ h_round' = NoRounds
    /\ response' = NoResponse
    /\ UNCHANGED <<now, storeVars, bgVars>>
    /\ UNCHANGED serverVars

\* ------------------------------------------------- mock_healthz_server.py
\* The second program of the repository.  It has no cache and no thread: each
\* request runs run_checks itself, one check after the other.  Its names that
\* clash with the names of mock-healthz-metrics.py carry the prefix srv_.

srv_INTERNAL_APIS == <<"user", "payment">>
srv_EXTERNAL_APIS == <<"wechat_pay", "sms_provider">>

\* What random.random() decides in one call of check_apis for one name.
srv_ApiKinds == {"ok", "error", "timeout"}

\* Every random draw one call of run_checks can make: the two critical
\* checks, one kind and one latency per API name, and the workflow.
srv_Draws ==
    [db : BOOLEAN, config : BOOLEAN,
     internal : [1..Len(srv_INTERNAL_APIS) -> srv_ApiKinds \X Latencies],
     external : [1..Len(srv_EXTERNAL_APIS) -> srv_ApiKinds \X Latencies],
     workflow : BOOLEAN]

srv_check_db_connection(ok) ==
    <<"db_connection", ok,
      IF ok THEN "Database is connected" ELSE "Database connection failed">>

srv_check_config_service(ok) ==
    <<"config_service", ok,
      IF ok THEN "Config service is reachable" ELSE "Config service error">>

\* check_apis(api_list, prefix); draw[i] is <<kind, latency>> for the i-th name.
srv_check_apis(api_list, prefix, draw) ==
    [i \in 1..Len(api_list) |->
        LET svc == Svc(prefix, api_list[i])
            kind == draw[i][1]
            latency == ToString(draw[i][2])
        IN  CASE kind = "timeout" ->
                    <<svc, FALSE, svc \o " timed out after " \o latency \o "ms">>
              [] kind = "error" -> <<svc, FALSE, svc \o " returned error">>
              [] OTHER -> <<svc, TRUE, svc \o " OK (" \o latency \o "ms)">>]

\* The else branch of run_checks: one skip entry per name.
srv_Skipped(api_list, prefix) ==
    [i \in 1..Len(api_list) |->
        <<Svc(prefix, api_list[i]), FALSE, "Skipped due to upstream failure">>]

srv_AnyFailed(results) == \E i \in 1..Len(results) : ~results[i][2]

\* A workflow check that runs its body whatever the earlier checks returned.
srv_check_endtoend_workflow_unconditional(prior_results, ok) ==
    <<"endtoend_workflow", ok,
      IF ok THEN "Workflow executed successfully" ELSE "Workflow execution failed">>

srv_check_endtoend_workflow(prior_results, ok) ==
    IF srv_AnyFailed(prior_results)
    THEN <<"endtoend_workflow", FALSE, "Skipped due to upstream failure">>
    ELSE <<"endtoend_workflow", ok,
           IF ok THEN "Workflow executed successfully"
                 ELSE "Workflow execution failed">>

\* The entries of run_checks before the workflow entry.
srv_PriorResults(d) ==
    LET results == <<srv_check_db_connection(d.db),
                     srv_check_config_service(d.config)>>
    IN  IF \A i \in 1..Len(results) : results[i][2]
        THEN results \o srv_check_apis(srv_INTERNAL_APIS, "internal_api", d.internal)
                     \o srv_check_apis(srv_EXTERNAL_APIS, "external_api", d.external)
        ELSE results \o srv_Skipped(srv_INTERNAL_APIS, "internal_api")
                     \o srv_Skipped(srv_EXTERNAL_APIS, "external_api")

srv_run_checks(d) ==
    LET results == srv_PriorResults(d)
    IN  Append(results, srv_check_endtoend_workflow(results, d.workflow))

\* The checks of one call of run_checks whose body ran (whose random draws
\* were made): the critical checks always, the APIs when check_apis is
\* called, the workflow when its entry is not the early return.
srv_Executed(d) ==
    LET prior == srv_PriorResults(d)
        last == srv_run_checks(d)[Len(prior) + 1]
    IN  {"db_connection", "config_service"}
        \cup (IF d.db /\ d.config
              THEN {prior[i][1] : i \in 3..Len(prior)} ELSE {})
        \cup (IF last[3] = "Skipped due to upstream failure"
              THEN {} ELSE {"endtoend_workflow"})

srv_Formats == {"text", "json"}

\* healthz of mock_healthz_server.py, from the results to the HTTPResponse.
srv_HealthzResponse(fmt, results) ==
    LET failed == srv_AnyFailed(results)
        code == IF failed THEN 500 ELSE 200
    IN  IF fmt = "text"
        THEN [status |-> code,
              content_type |-> "text/plain",
              body |-> [i \in 1..Len(results) |->
                            <<results[i][1],
                              IF results[i][2] THEN "PASS" ELSE "FAIL",
                              results[i][3]>>]]
        ELSE [status |-> code,
              content_type |-> "application/json",
              body |-> [status |-> IF ~failed THEN "ok" ELSE "error",
                        message |-> IF ~failed THEN "All checks passed"
                                               ELSE "Some checks failed",
                        checks |-> JsonChecks(results)]]

srv_MetricsResponse(results) ==
    [status |-> 200,
     content_type |-> "text/plain",
     body |-> <<"# HELP healthcheck_status Health check status (1=ok,0=error)",
                "# TYPE healthcheck_status gauge">>
              \o [i \in 1..Len(results) |->
                     "healthcheck_status{check=\"" \o results[i][1] \o "\"} "
                        \o (IF results[i][2] THEN "1" ELSE "0")]]

\* One request to /healthz: run_checks, then the response.
srv_healthz(fmt, d) ==
    /\ s_pc = "idle"
    /\ s_results' = srv_run_checks(d)
    /\ s_executed' = srv_Executed(d)
    /\ s_response' = srv_HealthzResponse(fmt, srv_run_checks(d))
    /\ s_pc' = "healthz"
    /\ UNCHANGED <<now, storeVars, bgVars, handlerVars>>

\* One request to /metrics: run_checks, then the response.
srv_metrics(d) ==
    /\ s_pc = "idle"
    /\ s_results' = srv_run_checks(d)
    /\ s_executed' = srv_Executed(d)
    /\ s_response' = srv_MetricsResponse(srv_run_checks(d))
    /\ s_pc' = "metrics"
    /\ UNCHANGED <<now, storeVars, bgVars, handlerVars>>

\* The response is sent; the results of the request are dropped with it.
srv_Sent ==
    /\ s_pc # "idle"
    /\ s_pc' = "idle"
    /\ s_results' = <<>>
    /\ s_executed' = {}
    /\ s_response' = NoResponse
    /\ UNCHANGED <<now, storeVars, bgVars, handlerVars>>

\* ----------------------------------------------------------- specifications

Handler ==
    \/ \E route \in Routes : Request(route)
    \/ ReadCritical
    \/ ReadExternal
    \/ ReadTimestamp
    \/ \E fmt \in Formats : HealthzRespond(fmt)
    \/ MetricsRespond
    \/ Finish

Publish ==
    \/ PublishCritical
    \/ PublishExternal
    \/ PublishTimestamp
    \/ WakeUp

\* The refresher thread, with probes of the given kinds, of which at most
\* budget invocations leave the success path.
Refresher(kinds, budget) ==
    \/ SubmitCritical(kinds, budget)
    \/ CollectCritical
    \/ SubmitInternal(kinds, budget)
    \/ SkipInternal
    \/ CollectInternal
    \/ SubmitExternal(kinds, budget)
    \/ CollectExternal
    \/ Shutdown
    \/ Publish
    \/ Tick

\* The service: the refresher with the probes of the source, and the requests.
Next == Refresher(NominalKinds, MaxFaults) \/ Handler

Spec == Init /\ [][Next]_vars

\* The refresher alone, with the probes of the source.
RefresherNext == Refresher(NominalKinds, MaxProbeFaults)

RefresherSpec == Init /\ [][RefresherNext]_vars

\* The refresher alone, with probes that may also raise an error or never
\* return.
FaultNext == Refresher(NominalKinds \cup FaultKinds, MaxProbeFaults) \/ ResultRaises

FaultSpec == Init /\ [][FaultNext]_vars

\* The threads of the process are scheduled fairly: the refresher takes its
\* next step, and time passes, whenever it can.
FairFaultSpec == FaultSpec /\ WF_vars(FaultNext)

\* mock_healthz_server.py alone: requests to its two routes, one at a time.
ServerNext ==
    \/ \E fmt \in srv_Formats, d \in srv_Draws : srv_healthz(fmt, d)
    \/ \E d \in srv_Draws : srv_metrics(d)
    \/ srv_Sent

ServerSpec == Init /\ [][ServerNext]_vars

\* ------------------------------------------------------------------ claims

RunPcs == {"collect_critical", "gate", "collect_internal", "submit_external",
           "collect_external", "shutdown"}
ReturnedPcs == {"publish_critical", "publish_external", "publish_timestamp", "sleep"}

\* The critical list and the external list of the current round: the lists
\* run_checks is building, and once it has returned, the lists it returned.
RoundCritical == IF pc \in RunPcs THEN critical_results ELSE critical
RoundExternal == IF pc \in RunPcs THEN external_results ELSE external

HasReadBoth == h_pc \in {"read_timestamp", "render", "done"}

\* C1: a handler that has read the critical list and the external list never
\* holds lists of two different rounds of run_checks.
C1_NoMixedRounds ==
    (HasReadBoth /\ h_round.critical > 0 /\ h_round.external > 0)
        => h_round.critical = h_round.external

\* Both critical results have been collected and one of them is not ok.
CriticalFailed(rs) ==
    /\ Len(rs) >= Len(CRITICAL_NAMES)
    /\ \E i \in 1..Len(CRITICAL_NAMES) : ~rs[i][2]

\* C2: in a round in which a critical result is not ok, no internal_api probe
\* is invoked and every internal_api entry of the round is not ok.
C2_GatedDependents ==
    CriticalFailed(RoundCritical) =>
        /\ \A p \in InternalSvcs : calls[p] = 0
        /\ \A i \in 1..Len(RoundCritical) :
              RoundCritical[i][1] \in InternalSvcs => ~RoundCritical[i][2]

\* C2 witness: run_checks has returned a round in which config_service timed
\* out, with an entry for every internal API and none of them invoked.
C2_Witness ==
    /\ pc = "publish_critical"
    /\ critical[1][2]
    /\ critical[2] = <<"config_service", FALSE, "config_service timed out">>
    /\ Len(critical) = Len(CRITICAL_NAMES) + Len(INTERNAL_APIS)
    /\ \A i \in 3..Len(critical) : critical[i][1] \in InternalSvcs /\ ~critical[i][2]
    /\ \A p \in InternalSvcs : calls[p] = 0

\* A critical or dependent entry of the list is not ok.
CriticalOrDependentFailed(results) ==
    \E i \in 1..Len(results) :
        /\ results[i][1] \in CriticalSvcs \cup InternalSvcs
        /\ ~results[i][2]

\* C3: /healthz answers 500 (JSON status "error") exactly when a critical or
\* dependent result of the snapshot it read is not ok, and 200 ("ok")
\* otherwise, whatever the external results are.
C3_StatusFromCriticalOnly ==
    (h_pc = "done" /\ h_route = "healthz") =>
        /\ response.status = IF CriticalOrDependentFailed(h_critical) THEN 500 ELSE 200
        /\ h_fmt = "json" =>
              response.body.status =
                  IF CriticalOrDependentFailed(h_critical) THEN "error" ELSE "ok"

\* C3 witness: a JSON response 200 / "ok" for a snapshot whose critical and
\* dependent results are all ok and that holds a failing external result.
C3_Witness ==
    /\ h_pc = "done"
    /\ h_route = "healthz"
    /\ h_fmt = "json"
    /\ Len(h_critical) = Len(CRITICAL_NAMES) + Len(INTERNAL_APIS)
    /\ ~CriticalOrDependentFailed(h_critical)
    /\ \E i \in 1..Len(h_external) : ~h_external[i][2]
    /\ response.status = 200
    /\ response.body.status = "ok"

\* A probe of the current call of run_checks never returns.
HungInRound ==
    \E p \in AllProbes : futures[p].submitted /\ futures[p].behaviour.kind = "hang"

\* C4: a call of run_checks in which a probe never returns still returns its
\* round (unless a probe error ends the call).
C4_HungProbeRoundReturns ==
    HungInRound ~> (pc = "publish_critical" \/ exc # NoExc)

\* The entries of the round being built.
RoundEntries ==
    {RoundCritical[i] : i \in 1..Len(RoundCritical)}
        \cup {RoundExternal[i] : i \in 1..Len(RoundExternal)}

\* C5: at the end of a call of run_checks no probe error is propagating, and
\* every probe that raised has the failed result (name, false, error text).
C5_ProbeErrorBecomesResult ==
    pc = "shutdown" =>
        /\ exc = NoExc
        /\ \A p \in AllProbes :
              (futures[p].submitted /\ Raises(p))
                  => <<p, FALSE, ProbeError(p)>> \in RoundEntries

\* C6: the refresher thread never ends.
C6_RefresherNeverStops == pc # "dead"

\* run_checks has returned and no later call has begun.
RoundReturned == pc \in ReturnedPcs \/ (pc = "loop" /\ round > 0)

\* What an external probe of the source can return, and its timeout result.
ExternalOutcomes(svc) ==
    {check_apis(EXTERNAL_APIS[i], "external_api", b) :
        i \in {j \in 1..Len(EXTERNAL_APIS) : Svc("external_api", EXTERNAL_APIS[j]) = svc},
        b \in Behaviours(NominalKinds)}
        \cup {<<svc, FALSE, svc \o " timed out">>}

\* C7: every external_api probe is invoked exactly once in every round, and
\* its entry is its own result or its timeout result, never the skip result,
\* whatever the critical results are.
C7_ExternalNeverGated ==
    /\ \A p \in ExternalSvcs :
          calls[p] = IF pc \in {"collect_external", "shutdown"} \/ RoundReturned
                     THEN 1 ELSE 0
    /\ \A i \in 1..Len(RoundExternal) :
          /\ RoundExternal[i][1] = Svc("external_api", EXTERNAL_APIS[i])
          /\ RoundExternal[i] \in ExternalOutcomes(RoundExternal[i][1])
          /\ RoundExternal[i][3] # "Skipped due to upstream failure"
    /\ RoundReturned => Len(RoundExternal) = Len(EXTERNAL_APIS)

\* C7 witness: a returned round in which db_connection failed and the internal
\* probes were skipped, with one external result ok and one external error.
C7_Witness ==
    /\ pc = "publish_critical"
    /\ ~critical[1][2]
    /\ critical[3][3] = "Skipped due to upstream failure"
    /\ external[1][2]
    /\ external[2] = <<"external_api/sms", FALSE, "external_api/sms returned error">>
    /\ \A p \in ExternalSvcs : calls[p] = 1

\* C8: no probe is waited for beyond CHECK_TIMEOUT from its submission, so
\* the wait for one tier is at most CHECK_TIMEOUT, and every probe collected
\* that had not completed by then has the timeout result.
C8_PerProbeDeadline ==
    /\ Collecting => now - futures[CurrentFuture].submitAt <= CHECK_TIMEOUT
    /\ pc \in RunPcs =>
          \A e \in RoundEntries :
              (/\ e[1] \in AllProbes
               /\ futures[e[1]].submitted
               /\ \/ futures[e[1]].doneAt = Never
                  \/ futures[e[1]].doneAt > futures[e[1]].submitAt + CHECK_TIMEOUT)
                  => e = <<e[1], FALSE, e[1] \o " timed out">>

\* C9: what a handler reads before the first round is published is the
\* empty snapshot (empty lists, timestamp 0), and on it the handler goes on
\* to a response without blocking: 200, with no check in it.
C9_EmptySnapshotBeforeFirstPublish ==
    /\ snapshot_round = NoRounds =>
          last_check_results = [critical |-> <<>>, external |-> <<>>, timestamp |-> 0]
    /\ (h_pc \in {"read_external", "read_timestamp", "render", "done"}
            /\ h_round.critical = 0) => h_critical = <<>>
    /\ (HasReadBoth /\ h_round.external = 0) => h_external = <<>>
    /\ (h_pc \in {"render", "done"} /\ h_route = "healthz" /\ h_round.timestamp = 0)
          => h_ts = 0
    /\ (h_pc # "idle" /\ h_round = NoRounds) => ENABLED Handler
    /\ (h_pc = "done" /\ h_round = NoRounds) =>
          /\ response.status = 200
          /\ h_route = "metrics" => Len(response.body) = 2
          /\ h_route = "healthz" =>
                response.body.critical = <<>> /\ response.body.external = <<>>

\* C9 witness: a /healthz request answered while nothing has been published.
C9_Witness ==
    /\ h_pc = "done"
    /\ h_route = "healthz"
    /\ snapshot_round = NoRounds
    /\ h_critical = <<>> /\ h_external = <<>> /\ h_ts = 0
    /\ response.status = 200

Names(rs) == [i \in 1..Len(rs) |-> rs[i][1]]
IsPrefix(s, t) == Len(s) <= Len(t) /\ \A i \in 1..Len(s) : s[i] = t[i]

\* The names of the probes in declaration order.
DeclaredCritical ==
    CRITICAL_NAMES \o [i \in 1..Len(INTERNAL_APIS) |-> Svc("internal_api", INTERNAL_APIS[i])]
DeclaredExternal ==
    [i \in 1..Len(EXTERNAL_APIS) |-> Svc("external_api", EXTERNAL_APIS[i])]

\* C10: the results of a round are in declaration order within each tier,
\* while the round is built and when it is returned.
C10_DeclarationOrder ==
    /\ IsPrefix(Names(RoundCritical), DeclaredCritical)
    /\ IsPrefix(Names(RoundExternal), DeclaredExternal)
    /\ RoundReturned =>
          /\ Names(RoundCritical) = DeclaredCritical
          /\ Names(RoundExternal) = DeclaredExternal

\* C10 witness: all results of a round are collected, in declaration order,
\* though in two tiers the probe declared second completed first and the
\* probe declared first timed out.
C10_Witness ==
    /\ pc = "shutdown"
    /\ futures["config_service"].doneAt < futures["db_connection"].doneAt
    /\ futures["external_api/sms"].doneAt < futures["external_api/alipay"].doneAt
    /\ critical_results[1] = <<"db_connection", FALSE, "db_connection timed out">>
    /\ Names(critical_results) = DeclaredCritical
    /\ Names(external_results) = DeclaredExternal

\* The steps of background_check_loop that assign a key of last_check_results.
PublishPcs == {"publish_critical", "publish_external", "publish_timestamp"}

\* C11: the request handlers only read.  A step of a /healthz or /metrics
\* handler leaves the cache, the round counter, the probe invocation counts,
\* the futures and the refresher's position unchanged; and a step that changes
\* the cache is one of the three assignments of background_check_loop, which
\* changes nothing of the handler.
C11_HandlersOnlyRead ==
    [][ /\ handlerVars' # handlerVars =>
               /\ last_check_results' = last_check_results
               /\ snapshot_round' = snapshot_round
               /\ round' = round
               /\ calls' = calls
               /\ futures' = futures
               /\ pc' = pc
        /\ last_check_results' # last_check_results =>
               /\ pc \in PublishPcs
               /\ handlerVars' = handlerVars ]_vars

\* A request has been answered from a published round, and the cache still
\* holds that round.
C11_Witness ==
    /\ h_pc = "done"
    /\ response.status # 0
    /\ h_round.critical > 0
    /\ snapshot_round.timestamp = h_round.critical
    /\ last_check_results.critical = h_critical
    /\ last_check_results.external = h_external
    /\ last_check_results.critical # <<>>

\* The entries of the current round, critical list first.
RoundList == RoundCritical \o RoundExternal

\* C12: a round that run_checks returned holds exactly one entry for every
\* configured probe and no other entry, whether the probe passed, failed,
\* timed out or was skipped.
C12_CompleteRound ==
    RoundReturned =>
        /\ \A p \in AllProbes :
              Cardinality({i \in 1..Len(RoundList) : RoundList[i][1] = p}) = 1
        /\ \A i \in 1..Len(RoundList) : RoundList[i][1] \in AllProbes
        /\ Len(RoundList) = Cardinality(AllProbes)

\* C12 witness: a returned round with a passed, a failed, two skipped and a
\* timed-out probe.
C12_Witness ==
    /\ pc = "publish_critical"
    /\ critical[1][2]
    /\ critical[2] = <<"config_service", FALSE, "Config service error">>
    /\ critical[3][3] = "Skipped due to upstream failure"
    /\ critical[4][3] = "Skipped due to upstream failure"
    /\ external[1] = <<"external_api/alipay", FALSE, "external_api/alipay timed out">>
    /\ Len(RoundList) = 6

\* The entries of the internal_api probes in a round whose gate was closed.
SkipEntries ==
    IF CriticalFailed(RoundCritical)
    THEN {RoundCritical[i] : i \in (Len(CRITICAL_NAMES) + 1)..Len(RoundCritical)}
    ELSE {}

\* C13 as stated: a skipped probe is recorded with the message
\* "skipped: upstream critical failure".
C13_SkipMessageAsStated ==
    \A e \in SkipEntries : e[2] = FALSE /\ e[3] = "skipped: upstream critical failure"

\* What the source does where C13 fails: a skipped internal_api probe is
\* recorded as (name, false, "Skipped due to upstream failure"), and that
\* message is on no entry of a probe that was invoked: no timeout entry and
\* no probe result carries it.
SkipMessageOfSource ==
    /\ \A e \in SkipEntries : e[2] = FALSE /\ e[3] = "Skipped due to upstream failure"
    /\ \A e \in RoundEntries :
          e[3] = "Skipped due to upstream failure" =>
              /\ e \in SkipEntries
              /\ calls[e[1]] = 0
    /\ \A e \in RoundEntries : calls[e[1]] = 0 => e \in SkipEntries

\* One round holds a timeout entry, two skip entries and the entry of a probe
\* that returned an error.
SkipMessageOfSource_Witness ==
    /\ pc = "publish_critical"
    /\ critical[1] = <<"db_connection", FALSE, "db_connection timed out">>
    /\ critical[3] = <<"internal_api/billing", FALSE, "Skipped due to upstream failure">>
    /\ critical[4] = <<"internal_api/usage", FALSE, "Skipped due to upstream failure">>
    /\ external[2] = <<"external_api/sms", FALSE, "external_api/sms returned error">>

\* What an internal probe of the source can return, and its timeout result.
InternalOutcomes(svc) ==
    {check_apis(INTERNAL_APIS[i], "internal_api", b) :
        i \in {j \in 1..Len(INTERNAL_APIS) : Svc("internal_api", INTERNAL_APIS[j]) = svc},
        b \in Behaviours(NominalKinds)}
        \cup {<<svc, FALSE, svc \o " timed out">>}

\* Both critical results of the current round are collected and ok.
CriticalAllOk ==
    /\ Len(RoundCritical) >= Len(CRITICAL_NAMES)
    /\ \A i \in 1..Len(CRITICAL_NAMES) : RoundCritical[i][2]

\* C16: an internal_api probe is invoked at most once in a round and only
\* when every critical result is collected and ok; in a round whose critical
\* results are all ok, past the gate every internal_api probe has been invoked
\* exactly once, and each of its entries is its own result or its timeout
\* result, never the skip entry.
C16_DependentsRunOnce ==
    /\ \A p \in InternalSvcs : calls[p] <= 1
    /\ \A p \in InternalSvcs : calls[p] = 1 => CriticalAllOk
    /\ (CriticalAllOk /\ pc \notin {"collect_critical", "gate"}) =>
          /\ \A p \in InternalSvcs : calls[p] = 1
          /\ \A i \in (Len(CRITICAL_NAMES) + 1)..Len(RoundCritical) :
                /\ RoundCritical[i] \in InternalOutcomes(RoundCritical[i][1])
                /\ RoundCritical[i][3] # "Skipped due to upstream failure"
    /\ (CriticalAllOk /\ RoundReturned) =>
          Len(RoundCritical) = Len(CRITICAL_NAMES) + Len(INTERNAL_APIS)

\* C16 witness: the critical probes passed; one internal probe returned its
\* own result and the other one was recorded as timed out.
C16_Witness ==
    /\ pc = "publish_critical"
    /\ critical[1][2] /\ critical[2][2]
    /\ critical[3] = <<"internal_api/billing", TRUE, "internal_api/billing OK (50ms)">>
    /\ critical[4] = <<"internal_api/usage", FALSE, "internal_api/usage timed out">>
    /\ \A p \in InternalSvcs : calls[p] = 1

\* The gauge line /metrics is to emit for a probe name, a list and a value.
ExpectedGauge(name, type, value) ==
    "healthcheck_status{check=\"" \o name \o "\",type=\"" \o type \o "\"} " \o value

\* The list of the cache a probe's result is published in.
TypeOf(p) == IF p \in ExternalSvcs THEN "external" ELSE "critical"

\* The handler read both lists from published rounds and every result is ok.
ReadAllOk ==
    /\ h_round.critical > 0
    /\ h_round.external > 0
    /\ \A i \in 1..Len(h_critical) : h_critical[i][2]
    /\ \A i \in 1..Len(h_external) : h_external[i][2]

\* C14: /metrics emits, after its two header lines, one gauge line per result
\* it read, in order, with value 1 if the result is ok and 0 if it is not; when
\* every result of the published lists is ok, that is exactly one line of value
\* 1 per configured probe name, and /healthz answers 200 with status "ok".
C14_GaugePerProbe ==
    /\ (h_pc = "done" /\ h_route = "metrics") =>
          /\ Len(response.body) = 2 + Len(h_critical) + Len(h_external)
          /\ \A i \in 1..Len(h_critical) :
                response.body[2 + i] =
                    ExpectedGauge(h_critical[i][1], "critical",
                                  IF h_critical[i][2] THEN "1" ELSE "0")
          /\ \A i \in 1..Len(h_external) :
                response.body[2 + Len(h_critical) + i] =
                    ExpectedGauge(h_external[i][1], "external",
                                  IF h_external[i][2] THEN "1" ELSE "0")
          /\ ReadAllOk =>
                /\ Len(response.body) = 2 + Cardinality(AllProbes)
                /\ \A p \in AllProbes :
                      Cardinality({i \in 1..Len(response.body) :
                          response.body[i] = ExpectedGauge(p, TypeOf(p), "1")}) = 1
    /\ (h_pc = "done" /\ h_route = "healthz" /\ ReadAllOk) =>
          /\ response.status = 200
          /\ h_fmt = "json" => response.body.status = "ok"

\* C14 witness: /metrics answered from a fully published round in which every
\* probe succeeded.
C14_Witness ==
    /\ h_pc = "done"
    /\ h_route = "metrics"
    /\ ReadAllOk
    /\ h_round.critical = h_round.external
    /\ snapshot_round.timestamp = h_round.critical
    /\ response.body[3] = "healthcheck_status{check=\"db_connection\",type=\"critical\"} 1"
    /\ response.body[8] = "healthcheck_status{check=\"external_api/sms\",type=\"external\"} 1"

\* C17: the timestamp /healthz renders was published by the round that
\* published the lists it renders; in particular it is not the initial
\* timestamp when a list comes from a round.
C17_TimestampOfRenderedRound ==
    (h_pc \in {"render", "done"} /\ h_route = "healthz") =>
        /\ h_round.timestamp = h_round.critical
        /\ h_round.timestamp = h_round.external

\* C19: a /healthz that read the critical list before the first round was
\* published answers 200, in JSON with status "ok", the message of a healthy
\* service and no critical check; if it read all three keys before the first
\* publish, it lists no check at all.
C19_HealthyBeforeFirstRound ==
    (h_pc = "done" /\ h_route = "healthz" /\ h_round.critical = 0) =>
        /\ response.status = 200
        /\ h_fmt = "json" =>
              /\ response.body.status = "ok"
              /\ response.body.message = "All critical checks passed"
              /\ response.body.critical = <<>>
              /\ h_round = NoRounds => response.body.external = <<>>
        /\ h_fmt # "json" =>
              /\ response.body.critical = <<>>
              /\ h_round = NoRounds => response.body.external = <<>>

\* C19 witness: the first round is still collecting its probes and nothing is
\* published; /healthz?format=json has answered 200 "ok" with empty lists.
C19_Witness ==
    /\ h_pc = "done"
    /\ h_route = "healthz"
    /\ h_fmt = "json"
    /\ h_round = NoRounds
    /\ snapshot_round = NoRounds
    /\ round = 1
    /\ pc \in {"collect_critical", "collect_internal", "collect_external"}
    /\ response.status = 200
    /\ response.body.status = "ok"
    /\ response.body.critical = <<>>
    /\ response.body.external = <<>>

\* C18: rounds do not overlap.  Outside a call of run_checks no probe runs;
\* run_checks returns only when no probe it submitted is still running; a
\* round starts only from the loop of background_check_loop, when the call
\* before it has returned and been published and none of its probes is left;
\* and the published timestamp never decreases.
C18_RoundsNeverOverlap ==
    /\ [](pc \notin RunPcs => Running = {})
    /\ [][ /\ (pc = "shutdown" /\ pc' # "shutdown") => Running = {}
           /\ round' # round =>
                 /\ round' = round + 1
                 /\ pc = "loop"
                 /\ Running = {}
                 /\ round > 0 => snapshot_round.timestamp = round
           /\ last_check_results'.timestamp >= last_check_results.timestamp ]_vars

\* C18 witness: the second round is launched after a first round whose last
\* probe was abandoned at its timeout and ran one second longer; the first
\* round returned and was published only when that probe had ended.
C18_Witness ==
    /\ round = 2
    /\ pc = "collect_critical"
    /\ snapshot_round.timestamp = 1
    /\ last_check_results.external[2] =
           <<"external_api/sms", FALSE, "external_api/sms timed out">>
    /\ last_check_results.timestamp = CHECK_TIMEOUT + 1
    /\ Running = {}

\* The names of the external_api checks of mock_healthz_server.py.
srv_ExternalSvcs ==
    {Svc("external_api", srv_EXTERNAL_APIS[i]) : i \in 1..Len(srv_EXTERNAL_APIS)}

\* C15: in every list run_checks of mock_healthz_server.py returned, each
\* external_api check was executed and its entry is not the skip entry.
C15_ServerExternalNeverGated ==
    s_pc # "idle" =>
        \A i \in 1..Len(s_results) :
            s_results[i][1] \in srv_ExternalSvcs =>
                /\ s_results[i][1] \in s_executed
                /\ s_results[i][3] # "Skipped due to upstream failure"

\* C20: in every list run_checks of mock_healthz_server.py returned,
\* endtoend_workflow is the last entry and no other one; if an earlier entry
\* is not ok, the workflow body did not run and the entry is the skip entry,
\* otherwise the body ran; and /healthz answers 200 exactly when every entry
\* of the list is ok, and 500 otherwise.
C20_WorkflowLastAndGated ==
    s_pc # "idle" =>
        LET n == Len(s_results)
            earlierFailed == \E i \in 1..(n - 1) : ~s_results[i][2]
        IN  /\ n = 3 + Len(srv_INTERNAL_APIS) + Len(srv_EXTERNAL_APIS)
            /\ \A i \in 1..n : (s_results[i][1] = "endtoend_workflow") <=> (i = n)
            /\ earlierFailed =>
                  /\ "endtoend_workflow" \notin s_executed
                  /\ s_results[n] =
                       <<"endtoend_workflow", FALSE, "Skipped due to upstream failure">>
            /\ ~earlierFailed =>
                  /\ "endtoend_workflow" \in s_executed
                  /\ s_results[n][3] \in {"Workflow executed successfully",
                                          "Workflow execution failed"}
            /\ s_pc = "healthz" =>
                  /\ s_response.status \in {200, 500}
                  /\ (s_response.status = 200) <=> (\A i \in 1..n : s_results[i][2])

\* C20 witness: only an external check failed; the workflow was skipped and
\* /healthz answered 500.
C20_Witness ==
    /\ s_pc = "healthz"
    /\ \A i \in 1..4 : s_results[i][2]
    /\ s_results[5] = <<"external_api/wechat_pay", FALSE,
                        "external_api/wechat_pay returned error">>
    /\ s_results[6][2]
    /\ s_results[7] = <<"endtoend_workflow", FALSE, "Skipped due to upstream failure">>
    /\ "endtoend_workflow" \notin s_executed
    /\ s_response.status = 500

====
